---------------------------- MODULE Spec2Model ----------------------------
(***************************************************************************)
(* Coordinate-event reconciliation of football-analytics:                  *)
(*   BallCoordinateProcessor.solve_timestamp_problem  (time reconciler)    *)
(*   EventProcessor.link_to_ball_coordinates          (event linker)       *)
(*   BallCoordinateProcessor.infer_possession         (possession engine)  *)
(* run in the order of scripts/03_process_match_data.py.                   *)
(*                                                                         *)
(* Numbers of the data frames are exact rationals <<n, d>> with d > 0;     *)
(* NaN is the empty tuple.  Object-typed cells are strings, None is the    *)
(* string "None".  Strings that are searched (event types) are sequences   *)
(* of one-character strings.                                               *)
(***************************************************************************)
EXTENDS Integers, Sequences, FiniteSets, TLC

VARIABLES
    coords,             \* coords_df: sequence of position rows
    coordsCols,         \* coords_df.columns (the optional ones)
    events,             \* events_df: sequence of event rows
    eventsCols,         \* events_df.columns (the optional ones)
    tolerance_seconds,  \* argument of link_to_ball_coordinates
    strategy,           \* which branch solve_timestamp_problem logged
    pc,                 \* position in process_single_fixture
    coords_file,        \* ball_coordinates.json of the fixture
    events_file,        \* events.json of the fixture
    error,              \* the exception that left the last call, or None
    liverpool_team_id,  \* argument of infer_possession and of the validator
    official_possession,\* argument of validate_possession_inference
    validation,         \* what validate_possession_inference returned
    fixture_outcomes,   \* what process_single_fixture does for each fixture
    attempted,          \* the fixtures process_all_fixtures has tried, in order
    success_count,      \* process_all_fixtures
    fail_count,         \* process_all_fixtures
    limiter,            \* a RateLimiter: delay, last_request_time, request_count
    now,                \* time.time()
    waits,              \* the wait() calls since construction or reset, in order
    collector,          \* a MatchDataCollector: resume, stats
    files,              \* the include files under output_dir
    requests,           \* the calls of client.get_fixture_details, in order
    results,            \* the results dictionary of _collect_fixture, in order
    call,               \* the collector call in progress or just returned
    attempts,           \* the (fixture, include) attempts made so far
    flaky,              \* the includes whose request or save can fail
    manifest,           \* CollectionManifest.manifest and .includes
    manifest_calls      \* the calls made on the manifest so far

fixtureVars == <<coords, coordsCols, events, eventsCols, tolerance_seconds, strategy>>
fileVars == <<coords_file, events_file>>
checkVars == <<liverpool_team_id, official_possession, validation>>
batchVars == <<fixture_outcomes, attempted, success_count, fail_count>>

processingVars == <<fixtureVars, pc, fileVars, error, checkVars, batchVars>>
limiterVars == <<limiter, now, waits>>
collectorVars == <<collector, files, requests, results, call, attempts, flaky>>
manifestVars == <<manifest, manifest_calls>>
collectionVars == <<limiterVars, collectorVars, manifestVars>>

vars == <<processingVars, collectionVars>>

-----------------------------------------------------------------------------
(* Exact arithmetic with NaN.                                              *)

\* team ids of the two sides of a fixture
Teams == {"A", "B"}

NaN == <<>>
None == "None"

Rat(n, d) == <<n, d>>
Whole(n) == <<n, 1>>

IsNaN(a) == a = NaN
NotNa(a) == a # NaN

RLt(a, b) == a[1] * b[2] < b[1] * a[2]
RLe(a, b) == a[1] * b[2] <= b[1] * a[2]
REq(a, b) == a[1] * b[2] = b[1] * a[2]

RAdd(a, b) == <<a[1] * b[2] + b[1] * a[2], a[2] * b[2]>>
RSub(a, b) == <<a[1] * b[2] - b[1] * a[2], a[2] * b[2]>>
RMul(a, b) == <<a[1] * b[1], a[2] * b[2]>>
RDiv(a, b) == IF b[1] > 0 THEN <<a[1] * b[2], a[2] * b[1]>>
              ELSE <<(0 - a[1]) * b[2], a[2] * (0 - b[1])>>
RAbs(a) == IF a[1] < 0 THEN <<0 - a[1], a[2]>> ELSE a

\* float operators of numpy: NaN in, NaN out; every comparison with NaN is False
FAdd(a, b) == IF IsNaN(a) \/ IsNaN(b) THEN NaN ELSE RAdd(a, b)
FSub(a, b) == IF IsNaN(a) \/ IsNaN(b) THEN NaN ELSE RSub(a, b)
FMul(a, b) == IF IsNaN(a) \/ IsNaN(b) THEN NaN ELSE RMul(a, b)
FDiv(a, b) == IF IsNaN(a) \/ IsNaN(b) THEN NaN ELSE RDiv(a, b)
FAbs(a) == IF IsNaN(a) THEN NaN ELSE RAbs(a)
FLt(a, b) == NotNa(a) /\ NotNa(b) /\ RLt(a, b)
FLe(a, b) == NotNa(a) /\ NotNa(b) /\ RLe(a, b)
\* Series.min() / Series.max(): NaN is skipped, NaN when nothing is left
SeriesMin(S) ==
    LET V == {v \in S : NotNa(v)}
    IN  IF V = {} THEN NaN ELSE CHOOSE m \in V : \A v \in V : RLe(m, v)
SeriesMax(S) ==
    LET V == {v \in S : NotNa(v)}
    IN  IF V = {} THEN NaN ELSE CHOOSE m \in V : \A v \in V : RLe(v, m)

-----------------------------------------------------------------------------
(* Time reconciler.                                                        *)

TimerShare == Rat(8, 10)
SecondsPerMinute == 60
DefaultPeriodDuration == 45
assumed_duration_NoStoppage == 95 - 5
assumed_duration == 95

\* coords_df.get("second", 0): the column, or the scalar 0 when it is absent
SecondOf(row, cols) == IF "second" \in cols THEN row.second ELSE Whole(0)

\* coords_df["minute"].notna().sum()
TimerCount(cs) == Cardinality({i \in DOMAIN cs : NotNa(cs[i].minute)})

\* "minute" in columns and notna().sum() > len(coords_df) * 0.8
UseTimer(cs, cols) ==
    /\ "minute" \in cols
    /\ RLt(RMul(Whole(Len(cs)), TimerShare), Whole(TimerCount(cs)))

\* strategy 1: estimated_minute = minute + second / 60
DirectTimer(cs, cols) ==
    [i \in DOMAIN cs |->
        [cs[i] EXCEPT !.estimated_minute =
            FAdd(cs[i].minute, FDiv(SecondOf(cs[i], cols), Whole(SecondsPerMinute)))]]

PeriodEventsOf_AnyPeriod(es, p) == DOMAIN es

\* events_df[events_df["period_id"] == period_id], as labels
PeriodEventsOf(es, p) == {j \in DOMAIN es : es[j].period_id # None /\ es[j].period_id = p}

\* strategy 2: one pass of the loop of _sync_by_period, for one period
SyncPeriodRow(cs, es, i) ==
    LET p == cs[i].period_id
        period_events == PeriodEventsOf(es, p)
        minutes == {es[j].minute : j \in period_events}
        min_minute == SeriesMin(minutes)
        max_minute == SeriesMax(minutes)
        span == FSub(max_minute, min_minute)
        duration == IF FLe(span, Whole(0)) THEN Whole(DefaultPeriodDuration) ELSE span
        period_sequences == {cs[k].sequence : k \in {k \in DOMAIN cs : cs[k].period_id = p}}
        period_seq_min == CHOOSE m \in period_sequences : \A s \in period_sequences : m <= s
        period_seq_max == CHOOSE m \in period_sequences : \A s \in period_sequences : s <= m
        period_seq_range == period_seq_max - period_seq_min
        normalized_seq == Rat(cs[i].sequence - period_seq_min, period_seq_range)
    IN  IF p = None \/ period_events = {} \/ period_seq_range <= 0
        THEN NaN
        ELSE FAdd(min_minute, FMul(normalized_seq, duration))

_sync_by_period(cs, es) ==
    [i \in DOMAIN cs |-> [cs[i] EXCEPT !.estimated_minute = SyncPeriodRow(cs, es, i)]]

\* strategy 3: estimated_minute = sequence / total_coords * assumed_duration
_estimate_time_from_sequence(cs) ==
    LET total_coords == Len(cs)
    IN  [i \in DOMAIN cs |->
            [cs[i] EXCEPT !.estimated_minute =
                RMul(Rat(cs[i].sequence, total_coords), Whole(assumed_duration))]]

StrategyOf(cs, cols, ecols) ==
    IF UseTimer(cs, cols) THEN 1
    ELSE IF "period_id" \in cols /\ "period_id" \in ecols THEN 2
    ELSE 3

solve_timestamp_problem(cs, cols, es, ecols) ==
    LET s == StrategyOf(cs, cols, ecols)
    IN  IF s = 1 THEN DirectTimer(cs, cols)
        ELSE IF s = 2 THEN _sync_by_period(cs, es)
        ELSE _estimate_time_from_sequence(cs)

-----------------------------------------------------------------------------
(* Event-coordinate linker.                                                *)

HighLinkBand == Rat(5, 100)      \* 0.05 minutes
MediumLinkBand == Rat(83, 1000)  \* 0.083 minutes

\* abs(coords_df["estimated_minute"] - event_minute) of one row
TimeDiff(row, event_minute) == FAbs(FSub(row.estimated_minute, event_minute))

WithinTolerance_Exclusive(row, event_minute, tolerance_minutes) ==
    FLt(TimeDiff(row, event_minute), tolerance_minutes)

\* time_diff <= tolerance_minutes, of one row
WithinTolerance(row, event_minute, tolerance_minutes) ==
    FLe(TimeDiff(row, event_minute), tolerance_minutes)

\* the index label of the returned row, <<>> for None
link_event_to_coordinate(event, cs, cols, tol) ==
    LET event_minute == event.minute
        tolerance_minutes == RDiv(tol, Whole(SecondsPerMinute))
        within_tolerance ==
            {i \in DOMAIN cs : WithinTolerance(cs[i], event_minute, tolerance_minutes)}
        \* idxmin: the first label holding the minimum
        closest_idx ==
            CHOOSE i \in within_tolerance :
                \A k \in within_tolerance :
                    \/ RLt(TimeDiff(cs[i], event_minute), TimeDiff(cs[k], event_minute))
                    \/ /\ REq(TimeDiff(cs[i], event_minute), TimeDiff(cs[k], event_minute))
                       /\ i <= k
    IN  IF IsNaN(event_minute) \/ "estimated_minute" \notin cols THEN <<>>
        ELSE IF within_tolerance = {} THEN <<>>
        ELSE <<closest_idx>>

LinkConfidence(time_diff) ==
    IF FLt(time_diff, HighLinkBand) THEN "high"
    ELSE IF FLt(time_diff, MediumLinkBand) THEN "medium"
    ELSE "low"

LinkRow(event, cs, cols, tol) ==
    LET closest_coord == link_event_to_coordinate(event, cs, cols, tol)
    IN  IF closest_coord = <<>>
        THEN [event EXCEPT !.ball = <<>>, !.link_confidence = None]
        ELSE [event EXCEPT
                !.ball = closest_coord,
                !.link_confidence =
                    LinkConfidence(TimeDiff(cs[closest_coord[1]], event.minute))]

link_to_ball_coordinates(es, cs, cols, tol) ==
    [j \in DOMAIN es |->
        IF "estimated_minute" \notin cols
        THEN [es[j] EXCEPT !.ball = <<>>, !.link_confidence = None]
        ELSE LinkRow(es[j], cs, cols, tol)]

-----------------------------------------------------------------------------
(* Possession inference.                                                   *)

possession_events ==
    << <<"p","a","s","s">>, <<"s","h","o","t">>, <<"c","r","o","s","s">>,
       <<"d","r","i","b","b","l","e">>, <<"t","o","u","c","h">>,
       <<"g","o","a","l","_","k","i","c","k">>, <<"t","h","r","o","w","_","i","n">>,
       <<"c","o","r","n","e","r">>, <<"f","r","e","e","_","k","i","c","k">> >>

UpperToLower ==
    [c \in {"A","B","C","D","E","F","G","H","I","J","K","L","M",
            "N","O","P","Q","R","S","T","U","V","W","X","Y","Z"} |->
        CASE c = "A" -> "a" [] c = "B" -> "b" [] c = "C" -> "c" [] c = "D" -> "d"
          [] c = "E" -> "e" [] c = "F" -> "f" [] c = "G" -> "g" [] c = "H" -> "h"
          [] c = "I" -> "i" [] c = "J" -> "j" [] c = "K" -> "k" [] c = "L" -> "l"
          [] c = "M" -> "m" [] c = "N" -> "n" [] c = "O" -> "o" [] c = "P" -> "p"
          [] c = "Q" -> "q" [] c = "R" -> "r" [] c = "S" -> "s" [] c = "T" -> "t"
          [] c = "U" -> "u" [] c = "V" -> "v" [] c = "W" -> "w" [] c = "X" -> "x"
          [] c = "Y" -> "y" [] c = "Z" -> "z"]

\* str.lower()
Lower(s) == [i \in DOMAIN s |-> IF s[i] \in DOMAIN UpperToLower THEN UpperToLower[s[i]] ELSE s[i]]

\* kw in s
Contains(s, kw) ==
    \E off \in 0..(Len(s) - Len(kw)) : \A i \in 1..Len(kw) : s[off + i] = kw[i]

\* the column infer_possession reads event types from, None when there is none
TypeCol(ecols) ==
    IF "type_name" \in ecols THEN "type_name"
    ELSE IF "event_type" \in ecols THEN "event_type"
    ELSE None

TypeOf(event, ecols) == IF TypeCol(ecols) = "type_name" THEN event.type_name ELSE event.event_type

\* a null event type
NoType == <<None>>

\* str.lower().str.contains("pass|shot|...", na=False)
IsPossessionEvent(event, ecols) ==
    LET t == TypeOf(event, ecols)
    IN  /\ t # NoType
        /\ \E k \in DOMAIN possession_events : Contains(Lower(t), possession_events[k])

\* the labels of poss_events
PossIdx(es, ecols) == {j \in DOMAIN es : IsPossessionEvent(es[j], ecols)}

\* sort_values("minute"): ascending, NaN last, rows of equal minute in any order
IsSortedByMinute(es, order) ==
    \A a, b \in DOMAIN order :
        a < b => \/ IsNaN(es[order[b]].minute)
                 \/ FLe(es[order[a]].minute, es[order[b]].minute)

SortOrders(es, ecols) ==
    LET P == PossIdx(es, ecols)
        n == Cardinality(P)
    IN  {o \in [1..n -> P] :
            /\ \A a, b \in 1..n : a # b => o[a] # o[b]
            /\ IsSortedByMinute(es, o)}

LowBand == Rat(17, 100)     \* 0.17 minutes
MediumBand == Rat(33, 100)  \* 0.33 minutes

\* next_event.get("team_id") != last_event.get("team_id"); a missing id is NaN
TeamDiffers(a, b) == a = None \/ b = None \/ a # b

ProximityBand_Swapped(time_since_event) ==
    IF FLt(time_since_event, MediumBand) THEN "high"
    ELSE IF FLt(time_since_event, LowBand) THEN "medium"
    ELSE "low"

\* the if / elif / else on time_since_event
ProximityBand(time_since_event) ==
    IF FLt(time_since_event, LowBand) THEN "high"
    ELSE IF FLt(time_since_event, MediumBand) THEN "medium"
    ELSE "low"

TurnoverTeam_KeepLast(last_event, next_event, time_to_next) ==
    last_event.team_id

\* the team assigned when a next event exists beyond the medium band
TurnoverTeam(last_event, next_event, time_to_next) ==
    IF /\ FLt(time_to_next, MediumBand)
       /\ TeamDiffers(next_event.team_id, last_event.team_id)
    THEN next_event.team_id
    ELSE last_event.team_id

\* the body of the loop over coords_df.iterrows()
InferRow(row, cols, es, order) ==
    LET coord_time == row.estimated_minute
        events_before == {k \in DOMAIN order : FLe(es[order[k]].minute, coord_time)}
        events_after == {k \in DOMAIN order : FLt(coord_time, es[order[k]].minute)}
        last_event == es[order[CHOOSE k \in events_before : \A m \in events_before : m <= k]]
        next_event == es[order[CHOOSE k \in events_after : \A m \in events_after : k <= m]]
        time_since_event == FSub(coord_time, last_event.minute)
        time_to_next == FSub(next_event.minute, coord_time)
        clear == [row EXCEPT !.possession_team = None, !.possession_confidence = None]
        set(team, conf) == [row EXCEPT !.possession_team = team, !.possession_confidence = conf]
    IN  IF "estimated_minute" \notin cols \/ IsNaN(coord_time) THEN clear
        ELSE IF events_before = {} THEN clear
        ELSE IF ProximityBand(time_since_event) # "low"
             THEN set(last_event.team_id, ProximityBand(time_since_event))
        ELSE IF events_after = {} THEN clear
        ELSE set(TurnoverTeam(last_event, next_event, time_to_next), "low")

infer_possession(cs, cols, es, ecols, order) ==
    IF TypeCol(ecols) = None
    THEN [i \in DOMAIN cs |->
            [cs[i] EXCEPT !.possession_team = None, !.possession_confidence = None]]
    ELSE [i \in DOMAIN cs |-> InferRow(cs[i], cols, es, order)]

-----------------------------------------------------------------------------
(* process_single_fixture, steps 4 and 5.                                   *)

\* step 4, first call
SolveTimestampProblem ==
    /\ pc = "parsed"
    /\ coords' = solve_timestamp_problem(coords, coordsCols, events, eventsCols)
    /\ coordsCols' = coordsCols \cup {"estimated_minute"}
    /\ strategy' = StrategyOf(coords, coordsCols, eventsCols)
    /\ pc' = "timed"
    /\ UNCHANGED <<events, eventsCols, tolerance_seconds>>
    /\ UNCHANGED <<fileVars, error, checkVars, batchVars>>
    /\ UNCHANGED collectionVars

\* step 4, second call
LinkToBallCoordinates ==
    /\ pc = "timed"
    /\ events' = link_to_ball_coordinates(events, coords, coordsCols, tolerance_seconds)
    /\ pc' = "linked"
    /\ UNCHANGED <<coords, coordsCols, eventsCols, tolerance_seconds, strategy>>
    /\ UNCHANGED <<fileVars, error, checkVars, batchVars>>
    /\ UNCHANGED collectionVars

\* step 5
InferPossession ==
    /\ pc = "linked"
    /\ \E order \in SortOrders(events, eventsCols) :
            coords' = infer_possession(coords, coordsCols, events, eventsCols, order)
    /\ coordsCols' = coordsCols \cup {"possession_team", "possession_confidence"}
    /\ pc' = "done"
    /\ UNCHANGED <<events, eventsCols, tolerance_seconds, strategy>>
    /\ UNCHANGED <<fileVars, error, checkVars, batchVars>>
    /\ UNCHANGED collectionVars

Next == SolveTimestampProblem \/ LinkToBallCoordinates \/ InferPossession

-----------------------------------------------------------------------------
(* categorize_event and its keyword lists.                                 *)

DEFENSIVE_ACTIONS ==
    << <<"t","a","c","k","l","e">>,
       <<"i","n","t","e","r","c","e","p","t","i","o","n">>,
       <<"c","l","e","a","r","a","n","c","e">>,
       <<"b","l","o","c","k">>,
       <<"b","l","o","c","k","e","d">> >>

PASSING_EVENTS ==
    << <<"p","a","s","s">>,
       <<"k","e","y","_","p","a","s","s">>,
       <<"c","r","o","s","s">> >>

PROGRESSIVE_ACTIONS ==
    << <<"c","a","r","r","y">>,
       <<"p","r","o","g","r","e","s","s","i","v","e","_","p","a","s","s">>,
       <<"t","h","r","o","u","g","h","_","b","a","l","l">>,
       <<"d","r","i","b","b","l","e">> >>

SET_PIECES ==
    << <<"c","o","r","n","e","r">>,
       <<"f","r","e","e","_","k","i","c","k">>,
       <<"t","h","r","o","w","_","i","n">>,
       <<"g","o","a","l","_","k","i","c","k">> >>

GOAL_RELATED ==
    << <<"g","o","a","l">>,
       <<"a","s","s","i","s","t">>,
       <<"s","h","o","t">>,
       <<"s","h","o","t","_","o","n","_","t","a","r","g","e","t">>,
       <<"p","e","n","a","l","t","y">> >>

\* any(action in event_lower for action in keywords)
AnyIn(keywords, event_lower) ==
    \E k \in DOMAIN keywords : Contains(event_lower, keywords[k])

categorize_event_PassingFirst(event_type) ==
    IF event_type = NoType THEN "other"
    ELSE LET event_lower == Lower(event_type)
         IN  IF AnyIn(PASSING_EVENTS, event_lower) THEN "passing"
             ELSE IF AnyIn(DEFENSIVE_ACTIONS, event_lower) THEN "defensive_action"
             ELSE IF AnyIn(PROGRESSIVE_ACTIONS, event_lower) THEN "progressive"
             ELSE IF AnyIn(SET_PIECES, event_lower) THEN "set_piece"
             ELSE IF AnyIn(GOAL_RELATED, event_lower) THEN "goal_related"
             ELSE "other"

categorize_event(event_type) ==
    IF event_type = NoType THEN "other"
    ELSE LET event_lower == Lower(event_type)
         IN  IF AnyIn(DEFENSIVE_ACTIONS, event_lower) THEN "defensive_action"
             ELSE IF AnyIn(PASSING_EVENTS, event_lower) THEN "passing"
             ELSE IF AnyIn(PROGRESSIVE_ACTIONS, event_lower) THEN "progressive"
             ELSE IF AnyIn(SET_PIECES, event_lower) THEN "set_piece"
             ELSE IF AnyIn(GOAL_RELATED, event_lower) THEN "goal_related"
             ELSE "other"

-----------------------------------------------------------------------------
(* Inputs.                                                                 *)

Pass == <<"P","a","s","s">>
Foul == <<"F","o","u","l">>

\* a row of parse_coordinates' frame
Sample(seq, m, s, p) ==
    [sequence |-> seq, minute |-> m, second |-> s, period_id |-> p,
     x |-> NaN, y |-> NaN, pitch_zone |-> "unknown", width_zone |-> "unknown",
     distance_to_goal_sq |-> NaN,
     estimated_minute |-> NaN, possession_team |-> None, possession_confidence |-> None]

\* a row of parse_events' frame; tcol is the column that holds the type
Event(m, p, team, ty, tcol) ==
    [minute |-> m, period_id |-> p, team_id |-> team,
     type_name |-> IF tcol = "type_name" THEN ty ELSE NoType,
     event_type |-> IF tcol = "event_type" THEN ty ELSE NoType,
     event_id |-> 0,
     event_category |-> IF tcol = "event_type" THEN categorize_event(ty) ELSE None,
     ball |-> <<>>, link_confidence |-> None]

SeqsOf(S, lo, hi) == UNION {[1..k -> S] : k \in lo..hi}

\* frames whose sequence column was assigned at ingestion, from first on
Frames(Cells, lo, hi, first) ==
    {[i \in DOMAIN c |-> Sample(first + i - 1, c[i][1], c[i][2], c[i][3])] :
        c \in SeqsOf(Cells, lo, hi)}

DefaultTolerance == Whole(5)

\* a payload file: whether it exists, its records, and the optional keys
\* its records carry
File(exists, data, cols) == [exists |-> exists, data |-> data, cols |-> cols]

\* both files have been parsed without error and are not looked at again
FilesRead ==
    /\ coords_file = File(TRUE, <<>>, {})
    /\ events_file = File(TRUE, <<>>, {})
    /\ error = None

\* the validator has not run; the script passes no team id of its own
NoCheck ==
    /\ liverpool_team_id = "A"
    /\ official_possession = <<>>
    /\ validation = [validation |-> None]

\* process_all_fixtures is not running
NoBatch ==
    /\ fixture_outcomes = <<>>
    /\ attempted = <<>>
    /\ success_count = 0
    /\ fail_count = 0

\* no rate limiter
NoLimiter ==
    /\ limiter = [delay |-> 0, last_request_time |-> <<>>, request_count |-> 0]
    /\ now = 0
    /\ waits = <<>>

\* no collector and no manifest
NoCollector ==
    /\ collector = [resume |-> TRUE,
                    stats |-> [api_calls |-> 0, files_created |-> 0,
                               files_skipped |-> 0, errors |-> 0]]
    /\ files = <<>>
    /\ requests = <<>>
    /\ results = <<>>
    /\ call = [pc |-> "idle", fixture_id |-> 0, number |-> 0]
    /\ attempts = 0
    /\ flaky = {}

NoManifest ==
    /\ manifest = [includes |-> <<>>, priority_order |-> <<>>, fixtures |-> <<>>,
                   file |-> <<>>]
    /\ manifest_calls = <<>>

\* nothing of the collection side has been constructed
NoCollection == NoLimiter /\ NoCollector /\ NoManifest

\* the state processing is in while nothing of it runs
NoProcessing ==
    /\ coords = <<>>
    /\ coordsCols = {}
    /\ events = <<>>
    /\ eventsCols = {}
    /\ tolerance_seconds = DefaultTolerance
    /\ strategy = 0
    /\ pc = "idle"
    /\ NoCheck /\ NoBatch /\ FilesRead

-----------------------------------------------------------------------------
(* Timer frames: the first branch of solve_timestamp_problem.              *)

MaxTimerSamples == 5

TimerCells(cols) ==
    (IF "minute" \in cols THEN {NaN, Whole(10)} ELSE {NaN})
    \X (IF "second" \in cols THEN {NaN, Whole(30)} ELSE {NaN})
    \X (IF "period_id" \in cols THEN {"P1"} ELSE {None})

InitTimer ==
    /\ coordsCols \in SUBSET {"minute", "second", "period_id"}
    /\ coords \in Frames(TimerCells(coordsCols), 1, MaxTimerSamples, 0)
    /\ eventsCols \in {{}, {"event_type"}, {"event_type", "period_id"}}
    /\ events = IF eventsCols = {} THEN <<>>
                ELSE <<Event(Whole(10), IF "period_id" \in eventsCols THEN "P1" ELSE None,
                             "A", Pass, "event_type")>>
    /\ tolerance_seconds = DefaultTolerance
    /\ strategy = 0
    /\ pc = "parsed"
    /\ NoCheck /\ NoBatch /\ FilesRead /\ NoCollection

SpecTimer == InitTimer /\ [][Next]_vars

-----------------------------------------------------------------------------
(* Period frames: _sync_by_period.                                         *)

MaxPeriodSamples == 3
MaxPeriodEvents == 2

PeriodEvents ==
    {[j \in DOMAIN e |-> Event(e[j][1], e[j][2], "A", Pass, "event_type")] :
        e \in SeqsOf({NaN, Whole(0), Whole(45), Whole(50)} \X {None, "P1", "P2"},
                     0, MaxPeriodEvents)}

InitPeriod ==
    /\ coordsCols = {"period_id"}
    /\ coords \in Frames({NaN} \X {NaN} \X {None, "P1", "P2"}, 1, MaxPeriodSamples, 0)
    /\ eventsCols = {"event_type", "period_id"}
    /\ events \in PeriodEvents
    /\ tolerance_seconds = DefaultTolerance
    /\ strategy = 0
    /\ pc = "parsed"
    /\ NoCheck /\ NoBatch /\ FilesRead /\ NoCollection

SpecPeriod == InitPeriod /\ [][Next]_vars

-----------------------------------------------------------------------------
(* Sequence frames: _estimate_time_from_sequence, then infer_possession.   *)

MaxSeqSamples == 4
MaxSeqEvents == 2

SeqEvents ==
    {[j \in DOMAIN e |-> Event(e[j][1], None, e[j][2], e[j][3], "event_type")] :
        e \in SeqsOf({Whole(0), Whole(20), Whole(50), Whole(94)} \X Teams \X {Pass, Foul},
                     0, MaxSeqEvents)}

InitSeq ==
    /\ coordsCols = {}
    /\ \E first \in {0, 1} :
            coords \in Frames({NaN} \X {NaN} \X {None}, 1, MaxSeqSamples, first)
    /\ eventsCols = {"event_type"}
    /\ events \in SeqEvents
    /\ tolerance_seconds = DefaultTolerance
    /\ strategy = 0
    /\ pc = "parsed"
    /\ NoCheck /\ NoBatch /\ FilesRead /\ NoCollection

SpecSeq == InitSeq /\ [][Next]_vars

-----------------------------------------------------------------------------
(* Possession frames: timers around possession events at 20, 20.4 and 21.  *)

MaxPossSamples == 1
MaxPossEvents == 2

PossTimers ==
    {<<19, 50>>, <<20, 6>>, <<20, 10>>, <<20, 11>>, <<20, 19>>,
     <<20, 21>>, <<20, 40>>, <<20, 41>>, <<21, 0>>}

\* team and type of an event: passes of A, of B and of no known team, and
\* events of A that are no possession events or have no type
PossKinds ==
    ({<<t, Pass>> : t \in Teams \cup {None}}) \cup {<<"A", Foul>>, <<"A", NoType>>}

\* the events of a frame: anything at minute 20, passes at 20.4 and at 21
PossCells ==
    ({Whole(20)} \X PossKinds)
    \cup ({Rat(204, 10)} \X {<<t, Pass>> : t \in Teams \cup {None}})
    \cup ({Whole(21)} \X {<<t, Pass>> : t \in Teams})

PossEvents(tcol) ==
    {[j \in DOMAIN e |-> Event(e[j][1], None, e[j][2][1], e[j][2][2], tcol)] :
        e \in SeqsOf(PossCells, 0, MaxPossEvents)}

InitPoss ==
    /\ coordsCols = {"minute", "second"}
    /\ coords \in Frames({<<Whole(t[1]), Whole(t[2]), None>> : t \in PossTimers},
                         1, MaxPossSamples, 0)
    /\ eventsCols = {"type_name"}
    /\ events \in PossEvents(TypeCol(eventsCols))
    /\ tolerance_seconds = DefaultTolerance
    /\ strategy = 0
    /\ pc = "parsed"
    /\ NoCheck /\ NoBatch /\ FilesRead /\ NoCollection

SpecPoss == InitPoss /\ [][Next]_vars

-----------------------------------------------------------------------------
(* Link frames: timers within seconds of events at minute 0 and 1.         *)

MaxLinkSamples == 2
MaxLinkEvents == 2

LinkSeconds ==
    {NaN, Whole(0), Whole(2), Whole(3), Whole(4), Rat(4992, 1000), Whole(5),
     Rat(504, 100), Whole(6), Whole(10), Whole(11), Whole(57), Whole(58)}

LinkEvents ==
    {[j \in DOMAIN e |-> Event(e[j], None, "A", Pass, "event_type")] :
        e \in SeqsOf({NaN, Whole(0), Whole(1)}, 0, MaxLinkEvents)}

InitLink ==
    /\ coordsCols = {"minute", "second"}
    /\ coords \in Frames({Whole(0)} \X LinkSeconds \X {None}, 1, MaxLinkSamples, 0)
    /\ eventsCols = {"event_type"}
    /\ events \in LinkEvents
    /\ tolerance_seconds \in {Whole(5), Whole(10)}
    /\ strategy = 0
    /\ pc = "parsed"
    /\ NoCheck /\ NoBatch /\ FilesRead /\ NoCollection

SpecLink == InitLink /\ [][Next]_vars

-----------------------------------------------------------------------------
(* Possession inference: what the rows must hold once it has run.          *)

Rows == DOMAIN coords
PossessionEvents == PossIdx(events, eventsCols)

\* possession events at or before t, and after t
Before(t) == {j \in PossessionEvents : FLe(events[j].minute, t)}
After(t) == {j \in PossessionEvents : FLt(t, events[j].minute)}

\* the latest possession events at or before t, the earliest after t
Latest(t) == {j \in Before(t) : \A k \in Before(t) : RLe(events[k].minute, events[j].minute)}
Earliest(t) == {j \in After(t) : \A k \in After(t) : RLe(events[j].minute, events[k].minute)}

\* minutes from event j to t, and from t to event j
Since(t, j) == RSub(t, events[j].minute)
Until(t, j) == RSub(events[j].minute, t)

Timed(i) == NotNa(coords[i].estimated_minute)
TeamsOf(J) == {events[j].team_id : j \in J}

\* row i is at least 0.33 minutes after its last possession event
Stale(i) ==
    LET t == coords[i].estimated_minute
    IN  /\ Timed(i)
        /\ Latest(t) # {}
        /\ \A l \in Latest(t) : RLe(Rat(33, 100), Since(t, l))

\* a next possession event of another team starts less than 0.33 minutes after row i
TurnoverAhead(i) ==
    LET t == coords[i].estimated_minute
    IN  \E n \in Earliest(t) : \E l \in Latest(t) :
            /\ RLt(Until(t, n), Rat(33, 100))
            /\ events[n].team_id # events[l].team_id

\* C1: a row at least 0.33 minutes after its last possession event, with no
\* next possession event of another team within 0.33 minutes (or no next
\* possession event at all), has the last event's team with confidence low.
C1_LowFallback ==
    pc = "done" =>
        \A i \in Rows :
            (Stale(i) /\ ~TurnoverAhead(i)) =>
                /\ coords[i].possession_confidence = "low"
                /\ coords[i].possession_team \in TeamsOf(Latest(coords[i].estimated_minute))

\* C3: a row at least 0.33 minutes after its last possession event, whose next
\* possession event is less than 0.33 minutes ahead and of another team, has
\* the next event's team with confidence low.
C3_TurnoverWindow ==
    pc = "done" =>
        \A i \in Rows :
            LET t == coords[i].estimated_minute
            IN  (/\ Stale(i)
                 /\ Earliest(t) # {}
                 /\ \A n \in Earliest(t) : \A l \in Latest(t) :
                        /\ RLt(Until(t, n), Rat(33, 100))
                        /\ events[n].team_id # events[l].team_id)
                =>  /\ coords[i].possession_confidence = "low"
                    /\ coords[i].possession_team \in TeamsOf(Earliest(t))

\* event A at 20, event B of another team at 20.4, the row at 20.35 has team B, low
C3_Witness ==
    /\ pc = "done"
    /\ \E i \in Rows :
        LET t == coords[i].estimated_minute
        IN  /\ Timed(i)
            /\ REq(t, Rat(2035, 100))
            /\ \E l \in Latest(t) : REq(events[l].minute, Whole(20)) /\ events[l].team_id = "A"
            /\ \E n \in Earliest(t) : REq(events[n].minute, Rat(204, 10)) /\ events[n].team_id = "B"
            /\ coords[i].possession_team = "B"
            /\ coords[i].possession_confidence = "low"

\* C4: a row less than 0.17 minutes after its last possession event has that
\* event's team with confidence high, a row from 0.17 to less than 0.33
\* minutes after it has that event's team with confidence medium, whatever
\* the next event is.
C4_ConfidenceDecay ==
    pc = "done" =>
        \A i \in Rows :
            LET t == coords[i].estimated_minute
            IN  (Timed(i) /\ Latest(t) # {}) =>
                    \A l \in Latest(t) :
                        /\ RLt(Since(t, l), Rat(17, 100)) =>
                            /\ coords[i].possession_confidence = "high"
                            /\ coords[i].possession_team \in TeamsOf(Latest(t))
                        /\ (RLe(Rat(17, 100), Since(t, l)) /\ RLt(Since(t, l), Rat(33, 100))) =>
                            /\ coords[i].possession_confidence = "medium"
                            /\ coords[i].possession_team \in TeamsOf(Latest(t))

\* a medium row of team A at 20:19 although team B's event at 20.4 is 5 seconds ahead
C4_Witness ==
    /\ pc = "done"
    /\ \E i \in Rows :
        LET t == coords[i].estimated_minute
        IN  /\ Timed(i)
            /\ REq(t, Rat(20 * 60 + 19, 60))
            /\ coords[i].possession_confidence = "medium"
            /\ coords[i].possession_team = "A"
            /\ \E n \in Earliest(t) : REq(events[n].minute, Rat(204, 10)) /\ events[n].team_id = "B"

-----------------------------------------------------------------------------
(* Sequence-proportional estimation followed by possession inference.      *)

\* the minute of the first possession event, NaN when there is none
FirstPossessionMinute == SeriesMin({events[j].minute : j \in PossessionEvents})

\* C2: after strategy 3 and possession inference, every row after the first
\* possession event's minute has a possession team and every row before it
\* has none.
C2_CoverageAfterFirstEvent ==
    (pc = "done" /\ strategy = 3) =>
        \A i \in Rows :
            /\ FLt(FirstPossessionMinute, coords[i].estimated_minute)
                => coords[i].possession_team # None
            /\ FLt(coords[i].estimated_minute, FirstPossessionMinute)
                => coords[i].possession_team = None

-----------------------------------------------------------------------------
(* Time reconciler: which strategy runs, and what it writes.               *)

Reconciled == pc # "parsed"

\* at least 80% of the rows have a minute
TimerShareReached == 10 * TimerCount(coords) >= 8 * Len(coords)

\* C5: whenever at least 80% of the rows (exactly 80% included) have a
\* minute, the direct timer is used, with or without period ids.
C5_TimerPriority ==
    (Reconciled /\ TimerShareReached) => strategy = 1

\* second, or 0 when the cell is null or the column is absent
SecondOrZero(i) ==
    IF "second" \in coordsCols /\ NotNa(coords[i].second) THEN coords[i].second ELSE Whole(0)

\* C6: under the direct timer every row with a minute has estimated_minute =
\* minute + (second or 0) / 60 and every row without a minute has none.
C6_DirectTimerValue ==
    (Reconciled /\ strategy = 1) =>
        \A i \in Rows :
            IF NotNa(coords[i].minute)
            THEN /\ Timed(i)
                 /\ REq(coords[i].estimated_minute,
                        RAdd(coords[i].minute, RDiv(SecondOrZero(i), Whole(60))))
            ELSE ~Timed(i)

\* row i has a period that some event carries
PeriodMatched(i) ==
    /\ coords[i].period_id # None
    /\ \E j \in DOMAIN events : events[j].period_id = coords[i].period_id

\* C7: under period synchronization every row whose period is null or is the
\* period of no event has no estimated_minute, then and in every later step.
C7_UnmatchedPeriodStaysNull ==
    (Reconciled /\ strategy = 2) =>
        \A i \in Rows : ~PeriodMatched(i) => ~Timed(i)

\* the pipeline has finished; a row of an event-less period has no estimate
\* while the rows of a period with events have one
C7_Witness ==
    /\ pc = "done"
    /\ strategy = 2
    /\ \E i \in Rows : coords[i].period_id # None /\ ~PeriodMatched(i) /\ ~Timed(i)
    /\ \E i \in Rows : PeriodMatched(i) /\ Timed(i)

\* the sequence column was assigned at ingestion: 0 .. N-1
IngestionSequence == \A i \in Rows : coords[i].sequence = i - 1

\* C8: under strategy 3 every row has estimated_minute = sequence / N * 95;
\* with sequences 0 .. N-1 the estimates increase strictly and are in [0, 95).
C8_SequenceProportional ==
    (Reconciled /\ strategy = 3) =>
        /\ \A i \in Rows :
            /\ Timed(i)
            /\ coords[i].estimated_minute[1] * Len(coords)
                    = coords[i].sequence * 95 * coords[i].estimated_minute[2]
        /\ IngestionSequence =>
            /\ \A i, k \in Rows :
                    i < k => RLt(coords[i].estimated_minute, coords[k].estimated_minute)
            /\ \A i \in Rows :
                    /\ RLe(Whole(0), coords[i].estimated_minute)
                    /\ RLt(coords[i].estimated_minute, Whole(95))

\* four rows 0 .. 3 estimated at 0, 23.75, 47.5 and 71.25
C8_Witness ==
    /\ Reconciled
    /\ strategy = 3
    /\ Len(coords) = 4
    /\ IngestionSequence
    /\ REq(coords[4].estimated_minute, Rat(7125, 100))

-----------------------------------------------------------------------------
(* Event-coordinate linker: which events are linked, and how confidently.  *)

Linked == pc \in {"linked", "done"}
Evts == DOMAIN events

\* seconds between row i and event j, as a rational; both must be timed
Apart(i, j) == RMul(RAbs(RSub(coords[i].estimated_minute, events[j].minute)), Whole(60))

\* row i is within tolerance_seconds of event j
Qualifies(i, j) ==
    /\ Timed(i)
    /\ NotNa(events[j].minute)
    /\ RLe(Apart(i, j), tolerance_seconds)

IsLinked(j) == events[j].ball # <<>>

\* C9: an event is linked if and only if some row is within tolerance_seconds
\* of it, the bound included; an event with no such row stays unlinked.
C9_InclusiveTolerance ==
    Linked => \A j \in Evts : IsLinked(j) <=> \E i \in Rows : Qualifies(i, j)

\* with tolerance 5.0 an event is linked to a row exactly 5 seconds away while
\* another event of the frame has no row within tolerance and stays unlinked
C9_Witness ==
    /\ Linked
    /\ REq(tolerance_seconds, Whole(5))
    /\ \E j \in Evts :
        /\ IsLinked(j)
        /\ REq(Apart(events[j].ball[1], j), Whole(5))
    /\ \E j \in Evts :
        /\ NotNa(events[j].minute)
        /\ ~IsLinked(j)

\* C10: a linked event's link_confidence is high when the chosen row is less
\* than 3 seconds away, medium from 3 to less than 5 seconds, low from 5
\* seconds on; an unlinked event has none.
C10_ConfidenceBands ==
    Linked =>
        \A j \in Evts :
            IF IsLinked(j)
            THEN LET d == Apart(events[j].ball[1], j)
                 IN  events[j].link_confidence =
                        IF RLt(d, Whole(3)) THEN "high"
                        ELSE IF RLt(d, Whole(5)) THEN "medium"
                        ELSE "low"
            ELSE events[j].link_confidence = None

-----------------------------------------------------------------------------
(* validate_possession_inference.  An optional argument is <<>> when it is *)
(* None and <<v>> when it is the value v.                                   *)

\* coords_df["possession_team"] == liverpool_team_id, for one row: nothing
\* is equal to None
TeamEquals(cell, team) == team # None /\ cell = team

PassBand == Whole(5)
WarnBand == Whole(10)

Verdict_Inclusive(difference) ==
    IF FLe(difference, PassBand) THEN "PASSED - Within 5%"
    ELSE IF FLe(difference, WarnBand) THEN "WARNING - Within 10%"
    ELSE "FAILED - Difference >10%"

Verdict(difference) ==
    IF FLt(difference, PassBand) THEN "PASSED - Within 5%"
    ELSE IF FLt(difference, WarnBand) THEN "WARNING - Within 10%"
    ELSE "FAILED - Difference >10%"

\* the exception of the call, or None
validate_error(cs, cols) ==
    IF "possession_team" \notin cols THEN "KeyError" ELSE None

\* the dictionary of the call when it returns one
validate_possession_inference(cs, cols, official, team) ==
    LET total_coords == Len(cs)
        liverpool_coords ==
            Cardinality({i \in DOMAIN cs : TeamEquals(cs[i].possession_team, team)})
        calculated_possession ==
            FMul(FDiv(Whole(liverpool_coords), Whole(total_coords)), Whole(100))
        difference == FAbs(FSub(calculated_possession, official[1]))
    IN  IF total_coords = 0 THEN [validation |-> "ERROR - No coordinates"]
        ELSE IF official = <<>>
        THEN [calculated |-> calculated_possession,
              official |-> NaN,
              validation |-> "UNABLE - No official stats"]
        ELSE [calculated |-> calculated_possession,
              official |-> official[1],
              difference |-> difference,
              validation |-> Verdict(difference)]

ValidatePossessionInference ==
    /\ pc = "done"
    /\ error' = validate_error(coords, coordsCols)
    /\ validation' =
            IF error' = None
            THEN validate_possession_inference(coords, coordsCols,
                                               official_possession, liverpool_team_id)
            ELSE validation
    /\ pc' = "validated"
    /\ UNCHANGED <<fixtureVars, fileVars, batchVars, liverpool_team_id, official_possession>>
    /\ UNCHANGED collectionVars

NextValidate == ValidatePossessionInference

MaxCheckSamples == 4

\* official figures: on both sides of 50 % at 4, 5 and 10 points, and NaN
Officials == {NaN, Whole(40), Whole(45), Whole(54), Whole(55), Whole(60)}

\* frames as infer_possession leaves them
InferredFrames ==
    {[i \in DOMAIN c |->
        [Sample(i - 1, NaN, NaN, None) EXCEPT
            !.possession_team = c[i],
            !.possession_confidence = IF c[i] = None THEN None ELSE "high"]] :
        c \in SeqsOf(Teams \cup {None}, 0, MaxCheckSamples)}

\* an inferred frame, or the frame of a fixture without positions, which
\* has no columns
InitValidate ==
    /\ coords \in InferredFrames
    /\ coordsCols \in
            {{"estimated_minute", "possession_team", "possession_confidence"}}
            \cup (IF coords = <<>> THEN {{}} ELSE {})
    /\ events = <<>>
    /\ eventsCols = {}
    /\ tolerance_seconds = DefaultTolerance
    /\ strategy = 0
    /\ pc = "done"
    /\ liverpool_team_id \in Teams \cup {None}
    /\ official_possession \in {<<>>} \cup {<<o>> : o \in Officials}
    /\ validation = [validation |-> None]
    /\ NoBatch /\ FilesRead /\ NoCollection

SpecValidate == InitValidate /\ [][NextValidate]_vars

Validated == pc = "validated"

\* C11: for a non-empty frame and an official figure that is a number, the
\* result's difference is |calculated - official| and its verdict is PASSED
\* when the difference is below 5, WARNING from 5 to below 10, FAILED from 10
C11_VerdictBands ==
    (Validated /\ Len(coords) > 0 /\ official_possession # <<>>
               /\ NotNa(official_possession[1])) =>
        /\ error = None
        /\ LET d == RAbs(RSub(validation.calculated, official_possession[1]))
               v == validation.validation
           IN  /\ REq(validation.difference, d)
               /\ RLt(d, Whole(5)) => v = "PASSED - Within 5%"
               /\ (RLe(Whole(5), d) /\ RLt(d, Whole(10))) => v = "WARNING - Within 10%"
               /\ RLe(Whole(10), d) => v = "FAILED - Difference >10%"

\* a difference of exactly 5 gave a warning
C11_Witness ==
    /\ Validated /\ Len(coords) > 0 /\ official_possession # <<>>
    /\ NotNa(official_possession[1])
    /\ REq(RAbs(RSub(validation.calculated, official_possession[1])), Whole(5))
    /\ validation.validation = "WARNING - Within 10%"

\* C12: with zero rows the validator returns the error result and raises
\* nothing, also for the frame without columns that parse_coordinates
\* returns for a missing or empty file
C12_ZeroSamplesError ==
    (Validated /\ Len(coords) = 0) =>
        /\ error = None
        /\ validation.validation = "ERROR - No coordinates"

-----------------------------------------------------------------------------
(* parse_coordinates.  A raw value of a record is <<"null", NaN, <<>>>>,    *)
(* <<"num", v, <<>>>> for the number v or <<"str", NaN, s>> for the text s. *)

Null == <<"null", NaN, <<>>>>
Num(v) == <<"num", v, <<>>>>
Str(s) == <<"str", NaN, s>>

Digits == <<"0", "1", "2", "3", "4", "5", "6", "7", "8", "9">>
IsDigit(c) == \E d \in DOMAIN Digits : Digits[d] = c
DigitValue(c) == (CHOOSE d \in DOMAIN Digits : Digits[d] = c) - 1

RECURSIVE DigitsValue(_)
DigitsValue(s) ==
    IF s = <<>> THEN 0
    ELSE DigitsValue(SubSeq(s, 1, Len(s) - 1)) * 10 + DigitValue(s[Len(s)])

RECURSIVE Pow10(_)
Pow10(n) == IF n = 0 THEN 1 ELSE 10 * Pow10(n - 1)

\* a text of digits with at most one decimal point is its number, any
\* other text is no number
ParseDecimal(s) ==
    LET dots == {i \in DOMAIN s : s[i] = "."}
        digits == SelectSeq(s, IsDigit)
        places == IF dots = {} THEN 0 ELSE Len(s) - (CHOOSE i \in dots : TRUE)
    IN  IF /\ Cardinality(dots) <= 1
           /\ Len(digits) > 0
           /\ Len(digits) + Cardinality(dots) = Len(s)
        THEN Rat(DigitsValue(digits), Pow10(places))
        ELSE NaN

\* pd.to_numeric(..., errors="coerce") of one value
to_numeric(v) ==
    IF v[1] = "num" THEN v[2]
    ELSE IF v[1] = "str" THEN ParseDecimal(v[3])
    ELSE NaN

DEFENSIVE_THIRD_X_Low == Rat(33, 100)

DEFENSIVE_THIRD_X == Rat(34, 100)
ATTACKING_THIRD_X == Rat(67, 100)
LEFT_WING_Y == Rat(25, 100)
RIGHT_WING_Y == Rat(75, 100)

categorize_pitch_zone_Inclusive(x) ==
    IF IsNaN(x) THEN "unknown"
    ELSE IF RLt(x, DEFENSIVE_THIRD_X) THEN "defensive_third"
    ELSE IF RLe(x, ATTACKING_THIRD_X) THEN "middle_third"
    ELSE "attacking_third"

categorize_pitch_zone(x) ==
    IF IsNaN(x) THEN "unknown"
    ELSE IF RLt(x, DEFENSIVE_THIRD_X) THEN "defensive_third"
    ELSE IF RLt(x, ATTACKING_THIRD_X) THEN "middle_third"
    ELSE "attacking_third"

categorize_width_zone(y) ==
    IF IsNaN(y) THEN "unknown"
    ELSE IF RLt(y, LEFT_WING_Y) THEN "left_wing"
    ELSE IF RLt(y, RIGHT_WING_Y) THEN "center"
    ELSE "right_wing"

\* the square of calculate_distance_to_goal: the goal is at (1, 1/2)
distance_to_goal_sq(x, y) ==
    LET dx == FSub(x, Whole(1))
        dy == FSub(y, Rat(1, 2))
    IN  FAdd(FMul(dx, dx), FMul(dy, dy))

\* a record of the payload
Position(x, y, seq) == [x |-> x, y |-> y, sequence |-> seq]

\* the row of the record at index i of the list
ParseRow(rec, i, cols) ==
    LET x == to_numeric(rec.x)
        y == to_numeric(rec.y)
    IN  [Sample(IF "sequence" \in cols THEN rec.sequence ELSE i - 1, NaN, NaN, None)
            EXCEPT !.x = x, !.y = y,
                   !.pitch_zone = categorize_pitch_zone(x),
                   !.width_zone = categorize_width_zone(y),
                   !.distance_to_goal_sq = distance_to_goal_sq(x, y)]

parse_coordinates(file) ==
    IF ~file.exists \/ file.data = <<>> THEN <<>>
    ELSE [i \in DOMAIN file.data |-> ParseRow(file.data[i], i, file.cols)]

\* the optional columns of the frame: an empty frame has no columns at all
parse_coordinates_cols(file) ==
    IF ~file.exists \/ file.data = <<>> THEN {}
    ELSE file.cols \ {"sequence"}

\* step 2 of process_single_fixture
ParseCoordinates ==
    /\ pc = "start"
    /\ coords' = parse_coordinates(coords_file)
    /\ coordsCols' = parse_coordinates_cols(coords_file)
    /\ error' = None
    /\ pc' = "coords_parsed"
    /\ UNCHANGED <<events, eventsCols, tolerance_seconds, strategy>>
    /\ UNCHANGED <<fileVars, checkVars, batchVars>>
    /\ UNCHANGED collectionVars

NextParse == ParseCoordinates

MaxRawPositions == 2

\* x values around the two thirds, as numbers and as text
RawX ==
    {Null, Num(Rat(33, 100)), Num(Rat(34, 100)), Num(Rat(67, 100)), Num(Whole(1)),
     Str(<<"0", ".", "3", "4">>), Str(<<"0", ".", "6", "7">>), Str(<<"a", "b", "c">>)}
RawY == {Null, Num(Rat(1, 4))}

\* payloads without timer, minute, second and period_id keys, whose records
\* all carry a sequence or all carry none
PositionFiles ==
    {File(FALSE, <<>>, {})}
    \cup {File(TRUE,
               [i \in DOMAIN c |-> Position(c[i][1], c[i][2], c[i][3])],
               IF c # <<>> /\ c[1][3] >= 0 THEN {"sequence"} ELSE {}) :
            c \in SeqsOf(RawX \X RawY \X {-1}, 0, MaxRawPositions)
                  \cup SeqsOf(RawX \X RawY \X {0, 1}, 1, MaxRawPositions)}

InitParse ==
    /\ coords_file \in PositionFiles
    /\ events_file = File(TRUE, <<>>, {})
    /\ coords = <<>>
    /\ coordsCols = {}
    /\ events = <<>>
    /\ eventsCols = {}
    /\ tolerance_seconds = DefaultTolerance
    /\ strategy = 0
    /\ error = None
    /\ pc = "start"
    /\ NoCheck /\ NoBatch /\ NoCollection

SpecParse == InitParse /\ [][NextParse]_vars

CoordsParsed == pc = "coords_parsed"

\* C13: a payload of zero records makes parse_coordinates signal an
\* EmptyDataError instead of returning an empty result
C13_EmptyDataError ==
    (CoordsParsed /\ coords_file.exists /\ coords_file.data = <<>>) =>
        error = "EmptyDataError"

-----------------------------------------------------------------------------
(* Calls with a tolerance that is not positive, or with a team id that is  *)
(* no identifier at all (None).                                            *)

MaxConfigSamples == 2
MaxConfigEvents == 1

InitConfig ==
    /\ coordsCols = {"minute", "second"}
    /\ coords \in Frames({Whole(0)} \X {Whole(0), Whole(3)} \X {None},
                         1, MaxConfigSamples, 0)
    /\ eventsCols = {"event_type"}
    /\ events \in
            {[j \in DOMAIN e |-> Event(e[j][1], None, e[j][2], Pass, "event_type")] :
                e \in SeqsOf({NaN, Whole(0), Whole(1)} \X Teams, 0, MaxConfigEvents)}
    /\ tolerance_seconds \in {Whole(-5), Whole(0), Whole(5)}
    /\ strategy = 0
    /\ pc = "parsed"
    /\ liverpool_team_id \in {"A", None}
    /\ official_possession = <<>>
    /\ validation = [validation |-> None]
    /\ NoBatch /\ FilesRead /\ NoCollection

SpecConfig == InitConfig /\ [][Next]_vars

\* C14: once the linker has been called with a tolerance of 0 or less, or
\* possession inference with a team id of an invalid type, the call has
\* failed with an error
C14_EagerRejection ==
    /\ (pc \in {"linked", "done"} /\ RLe(tolerance_seconds, Whole(0))) => error # None
    /\ (pc = "done" /\ liverpool_team_id = None) => error # None

-----------------------------------------------------------------------------
(* Claims about the frame of parse_coordinates.                            *)

\* C15: in every frame parse_coordinates returns, whether the sequence was
\* assigned or came with the records, the sequence values strictly increase
\* in input order
C15_SequenceIncreasing ==
    CoordsParsed =>
        \A i, k \in DOMAIN coords : i < k => coords[i].sequence < coords[k].sequence

\* C16: a row with a number for x is in exactly the third of its x, below
\* 0.34 defensive, from 0.34 to below 0.67 middle, from 0.67 attacking, and
\* a row is unknown exactly when its x is null
C16_ZoneTotal ==
    CoordsParsed =>
        \A i \in DOMAIN coords :
            LET x == coords[i].x
                zone == coords[i].pitch_zone
            IN  /\ IsNaN(x) <=> zone = "unknown"
                /\ NotNa(x) =>
                    /\ RLt(x, Rat(34, 100)) <=> zone = "defensive_third"
                    /\ (RLe(Rat(34, 100), x) /\ RLt(x, Rat(67, 100)))
                            <=> zone = "middle_third"
                    /\ RLe(Rat(67, 100), x) <=> zone = "attacking_third"

\* one frame held a row below 0.34 in the defensive third and a row whose x
\* is no number in no third
C16_Witness ==
    /\ CoordsParsed
    /\ \E i, k \in DOMAIN coords :
            /\ coords_file.data[i].x = Num(Rat(33, 100))
            /\ coords[i].pitch_zone = "defensive_third"
            /\ coords_file.data[k].x = Str(<<"a", "b", "c">>)
            /\ coords[k].pitch_zone = "unknown"

\* x is the number b
At(x, b) == NotNa(x) /\ REq(x, b)

\* C17 as stated: rows at x = 0.34 and rows at x = 0.67 are both in the
\* middle third
C17_BothBoundariesMiddle ==
    CoordsParsed =>
        \A i \in DOMAIN coords :
            (At(coords[i].x, Rat(34, 100)) \/ At(coords[i].x, Rat(67, 100)))
                => coords[i].pitch_zone = "middle_third"

\* C17, amended: a row at x = 0.34 is in the middle third and a row at
\* x = 0.67 is in the attacking third
C17_BoundaryZones ==
    CoordsParsed =>
        \A i \in DOMAIN coords :
            /\ At(coords[i].x, Rat(34, 100)) => coords[i].pitch_zone = "middle_third"
            /\ At(coords[i].x, Rat(67, 100)) => coords[i].pitch_zone = "attacking_third"

\* one frame held a row at each boundary, one given as a number and one as
\* text
C17_Witness ==
    /\ CoordsParsed
    /\ \E i, k \in DOMAIN coords :
            /\ coords_file.data[i].x = Num(Rat(34, 100))
            /\ coords[i].pitch_zone = "middle_third"
            /\ coords_file.data[k].x = Str(<<"0", ".", "6", "7">>)
            /\ coords[k].pitch_zone = "attacking_third"

-----------------------------------------------------------------------------
(* parse_events.  The minute of a row is a number, NaN, or the text of the *)
(* record kept as Str(s).                                                   *)

Unknown == <<"U","n","k","n","o","w","n">>

\* a record of the payload: a dictionary with these keys, or something that
\* is no dictionary; type is <<>> without the key and <<name>> with it
RawEvent(isdict, id, minute, type, participant) ==
    [dict |-> isdict, id |-> id, minute |-> minute, type |-> type,
     participant |-> participant]

\* event.get("minute") as the frame holds it
MinuteCell(v) == IF v[1] = "num" THEN v[2] ELSE IF v[1] = "str" THEN v ELSE NaN

IsText(m) == Len(m) = 3
IsNumber(m) == Len(m) = 2

\* <<>> when the extraction raised, else the row in a one-element sequence
_parse_single_event(event) ==
    IF ~event.dict THEN <<>>
    ELSE LET event_type == IF event.type = <<>> THEN Unknown ELSE event.type[1]
         IN  << [Event(MinuteCell(event.minute), None, event.participant,
                       event_type, "event_type")
                    EXCEPT !.event_id = event.id, !.event_category = None] >>

RECURSIVE parsed_events(_)
parsed_events(events_list) ==
    IF events_list = <<>> THEN <<>>
    ELSE parsed_events(SubSeq(events_list, 1, Len(events_list) - 1))
            \o _parse_single_event(events_list[Len(events_list)])

\* sort_values compares a text with a number
SortRaises(rows) ==
    \E i, k \in DOMAIN rows : IsText(rows[i].minute) /\ IsNumber(rows[k].minute)

\* a before b is an order sort_values("minute") can leave
MinuteOrdered(a, b) ==
    \/ IsNaN(b)
    \/ IsText(a) /\ IsText(b) /\ a = b
    \/ IsNumber(a) /\ IsNumber(b) /\ RLe(a, b)

EventOrders_InputOrder(rows) == {[j \in DOMAIN rows |-> j]}

\* the row orders sort_values("minute") can leave: NaN last, ties in any order
EventOrders(rows) ==
    {o \in [DOMAIN rows -> DOMAIN rows] :
        /\ \A a, b \in DOMAIN rows : a # b => o[a] # o[b]
        /\ \A a, b \in DOMAIN rows :
                a < b => MinuteOrdered(rows[o[a]].minute, rows[o[b]].minute)}

\* the exception of the call, or None
parse_events_error(file) ==
    IF file.exists /\ SortRaises(parsed_events(file.data)) THEN "TypeError" ELSE None

\* the frame of the call when it returns one, its rows sorted as order says
parse_events(file, order) ==
    LET rows == parsed_events(file.data)
    IN  IF ~file.exists THEN <<>>
        ELSE [j \in DOMAIN rows |->
                [rows[order[j]] EXCEPT
                    !.event_category = categorize_event(rows[order[j]].event_type)]]

\* step 3 of process_single_fixture
ParseEvents ==
    /\ pc = "start"
    /\ error' = parse_events_error(events_file)
    /\ IF error' # None THEN UNCHANGED <<events, eventsCols>>
       ELSE /\ \E order \in EventOrders(parsed_events(events_file.data)) :
                    events' = parse_events(events_file, order)
            /\ eventsCols' = IF events' = <<>> THEN {} ELSE {"event_type", "period_id"}
    /\ pc' = "events_parsed"
    /\ UNCHANGED <<coords, coordsCols, tolerance_seconds, strategy>>
    /\ UNCHANGED <<fileVars, checkVars, batchVars>>
    /\ UNCHANGED collectionVars

NextEvents == ParseEvents

MaxRawEvents == 3

RawMinutes == {Null, Num(Whole(0)), Num(Whole(10)), Str(<<"x">>)}
RawTypes == {<<>>, <<Pass>>, <<Foul>>}

\* records that are no dictionary, and dictionaries of team A
RawEventCells ==
    {<<FALSE, Null, <<>>>>} \cup {<<TRUE, m, t>> : m \in RawMinutes, t \in RawTypes}

\* the record at index i has id i
EventFiles ==
    {File(FALSE, <<>>, {})}
    \cup {File(TRUE,
               [i \in DOMAIN c |->
                    RawEvent(c[i][1], i, c[i][2], c[i][3], IF c[i][1] THEN "A" ELSE None)],
               {}) :
            c \in SeqsOf(RawEventCells, 0, MaxRawEvents)}

InitEvents ==
    /\ events_file \in EventFiles
    /\ coords_file = File(TRUE, <<>>, {})
    /\ coords = <<>>
    /\ coordsCols = {}
    /\ events = <<>>
    /\ eventsCols = {}
    /\ tolerance_seconds = DefaultTolerance
    /\ strategy = 0
    /\ error = None
    /\ pc = "start"
    /\ NoCheck /\ NoBatch /\ NoCollection

SpecEvents == InitEvents /\ [][NextEvents]_vars

EventsParsed == pc = "events_parsed"

\* the rows of the frame that come from the record at index i
RowsOf(i) == {j \in DOMAIN events : events[j].event_id = events_file.data[i].id}

\* C18: parse_events returns for every list; a record whose extraction
\* raises is in no row of the frame and every other record is in exactly one
C18_PartialFailure ==
    EventsParsed =>
        /\ error = None
        /\ \A i \in DOMAIN events_file.data :
                Cardinality(RowsOf(i)) = IF events_file.data[i].dict THEN 1 ELSE 0

\* the six categories of categorize_event
Categories ==
    {"defensive_action", "passing", "progressive", "set_piece", "goal_related", "other"}

\* C19 as stated: in a returned frame the minute of every event is <= the
\* minute of the event after it, and every event has an event_category
C19_SortedByMinute ==
    (EventsParsed /\ error = None) =>
        /\ \A j \in DOMAIN events : events[j].event_category \in Categories
        /\ \A j \in 1..(Len(events) - 1) :
                LET a == events[j].minute
                    b == events[j + 1].minute
                IN  \/ IsNumber(a) /\ IsNumber(b) /\ RLe(a, b)
                    \/ IsText(a) /\ IsText(b) /\ a = b

\* C19, amended: in a returned frame the events that have a minute come
\* first, those with a number in ascending order, the events without a
\* minute come last, and every event has an event_category
C19_SortedNullsLast ==
    (EventsParsed /\ error = None) =>
        /\ \A j \in DOMAIN events : events[j].event_category \in Categories
        /\ \A j, k \in DOMAIN events :
                j < k =>
                    LET a == events[j].minute
                        b == events[k].minute
                    IN  /\ (IsNumber(a) /\ IsNumber(b)) => RLe(a, b)
                        /\ IsNaN(a) => IsNaN(b)

\* a list with minutes 10, none, 0 came back as 0, 10, none
C19_Witness ==
    /\ EventsParsed /\ error = None /\ Len(events) = 3
    /\ <<events[1].event_id, events[2].event_id, events[3].event_id>> = <<3, 1, 2>>
    /\ events[1].minute = Whole(0) /\ events[2].minute = Whole(10)
    /\ IsNaN(events[3].minute)
    /\ events[1].event_category = "passing"

-----------------------------------------------------------------------------
(* process_all_fixtures.  A fixture is the index of its directory in       *)
(* fixture_ids; what process_single_fixture does for it is "True" (the     *)
(* fixture was saved), "False" (its quality check failed) or "raise" (an   *)
(* Exception left the call, as for a fixture without positions).           *)

Outcomes == {"True", "False", "raise"}

success_after(count, outcome) == IF outcome = "True" THEN count + 1 ELSE count

fail_after_CaughtUncounted(count, outcome) ==
    IF outcome = "False" THEN count + 1 ELSE count

\* the else branch and the except branch
fail_after(count, outcome) ==
    IF outcome \in {"False", "raise"} THEN count + 1 ELSE count

\* one pass of the for loop
ProcessFixture ==
    /\ pc = "batch"
    /\ Len(attempted) < Len(fixture_outcomes)
    /\ LET fixture_id == Len(attempted) + 1
           outcome == fixture_outcomes[fixture_id]
       IN  /\ attempted' = Append(attempted, fixture_id)
           /\ success_count' = success_after(success_count, outcome)
           /\ fail_count' = fail_after(fail_count, outcome)
    /\ UNCHANGED <<fixtureVars, fileVars, error, checkVars, fixture_outcomes, pc>>
    /\ UNCHANGED collectionVars

\* the loop is over and the summary is logged
ProcessingSummary ==
    /\ pc = "batch"
    /\ Len(attempted) = Len(fixture_outcomes)
    /\ pc' = "summary"
    /\ UNCHANGED <<fixtureVars, fileVars, error, checkVars, batchVars>>
    /\ UNCHANGED collectionVars

NextBatch == ProcessFixture \/ ProcessingSummary

MaxFixtures == 4

InitBatch ==
    /\ fixture_outcomes \in SeqsOf(Outcomes, 0, MaxFixtures)
    /\ attempted = <<>>
    /\ success_count = 0
    /\ fail_count = 0
    /\ pc = "batch"
    /\ coords = <<>>
    /\ coordsCols = {}
    /\ events = <<>>
    /\ eventsCols = {}
    /\ tolerance_seconds = DefaultTolerance
    /\ strategy = 0
    /\ NoCheck /\ FilesRead /\ NoCollection

SpecBatch == InitBatch /\ [][NextBatch]_vars

\* how often fixture f has been attempted
Attempts(f) == Cardinality({k \in DOMAIN attempted : attempted[k] = f})

\* C20: when the batch is over every fixture of the list has been attempted
\* exactly once, whatever the fixtures before it did, and success_count +
\* fail_count is the number of fixtures; until then no fixture has been
\* attempted twice and the two counters add up to the attempts made
C20_EveryFixtureOnce ==
    /\ \A f \in DOMAIN fixture_outcomes : Attempts(f) <= 1
    /\ success_count + fail_count = Len(attempted)
    /\ pc = "summary" =>
        /\ \A f \in DOMAIN fixture_outcomes : Attempts(f) = 1
        /\ success_count + fail_count = Len(fixture_outcomes)

\* a batch is over whose first fixture raised, whose second returned False
\* and whose third succeeded
C20_Witness ==
    /\ pc = "summary"
    /\ Len(fixture_outcomes) >= 3
    /\ fixture_outcomes[1] = "raise" /\ fixture_outcomes[2] = "False"
    /\ fixture_outcomes[3] = "True"
    /\ success_count >= 1 /\ fail_count >= 2

-----------------------------------------------------------------------------
(* RateLimiter.  Times are whole ticks of the clock; an optional time is   *)
(* <<>> when it is None and <<t>> when it is t.                             *)

RateLimiter(delay) == [delay |-> delay, last_request_time |-> <<>>, request_count |-> 0]

\* how long wait() sleeps when it is called at time t
sleep_time(lim, t) ==
    IF lim.last_request_time = <<>> THEN 0
    ELSE LET elapsed == t - lim.last_request_time[1]
         IN  IF elapsed < lim.delay THEN lim.delay - elapsed ELSE 0

last_request_time_CallTime(called, returned) == called

\* the time wait() records: time.time() read after the sleep
last_request_time(called, returned) == returned

\* the limiter after a wait() called at time called that is over at returned
wait(lim, called, returned) ==
    [lim EXCEPT !.last_request_time = <<last_request_time(called, returned)>>,
                !.request_count = @ + 1]

\* the entry of a wait() in the history
Waited(lim, called, returned) ==
    [called |-> called, waited |-> sleep_time(lim, called), returned |-> returned]

\* time.sleep(s) may take longer than s, by at most this much
MaxOversleep == 1

\* when a wait() called now can be over
ReturnTimes(lim, t) ==
    IF sleep_time(lim, t) = 0 THEN {t}
    ELSE {t + sleep_time(lim, t) + over : over \in 0..MaxOversleep}

MaxClock == 6
MaxRequests == 3

Wait ==
    /\ limiter.request_count < MaxRequests
    /\ now <= MaxClock
    /\ \E returned \in ReturnTimes(limiter, now) :
            /\ limiter' = wait(limiter, now, returned)
            /\ waits' = Append(waits, Waited(limiter, now, returned))
            /\ now' = returned
    /\ UNCHANGED <<processingVars, collectorVars, manifestVars>>

Reset ==
    /\ limiter' = [limiter EXCEPT !.last_request_time = <<>>, !.request_count = 0]
    /\ waits' = <<>>
    /\ UNCHANGED <<now, processingVars, collectorVars, manifestVars>>

\* time passes between two calls
Tick ==
    /\ now < MaxClock
    /\ now' = now + 1
    /\ UNCHANGED <<limiter, waits, processingVars, collectorVars, manifestVars>>

NextLimiter == Wait \/ Reset \/ Tick

InitLimiter ==
    /\ \E delay \in {0, 2, 3} : limiter = RateLimiter(delay)
    /\ now = 0
    /\ waits = <<>>
    /\ NoProcessing /\ NoCollector /\ NoManifest

SpecLimiter == InitLimiter /\ [][NextLimiter]_vars

-----------------------------------------------------------------------------
(* MatchDataCollector.  The content of a file is "absent", "old" (as it   *)
(* was before the collector ran), "new" (save_json wrote it) or "partial"  *)
(* (save_json opened it and failed while writing); before tells whether    *)
(* the file was there before the collector ran.                            *)

INCLUDES ==
    <<"ballCoordinates", "events", "lineups", "formations", "statistics",
      "participants", "scores">>

IncludeNames == {INCLUDES[i] : i \in DOMAIN INCLUDES}

\* BaseCollector.__init__
Collector(resume) ==
    [resume |-> resume,
     stats |-> [api_calls |-> 0, files_created |-> 0, files_skipped |-> 0, errors |-> 0]]

\* the files of fixtures F, those in existing being there already
Files(F, existing) ==
    [path \in F \X IncludeNames |->
        [before |-> path \in existing,
         content |-> IF path \in existing THEN "old" ELSE "absent"]]

FixturesOf(fs) == {path[1] : path \in DOMAIN fs}

file_exists(content) == content # "absent"

should_skip_ResumeIgnored(coll, content) == file_exists(content)

\* what should_skip returns
should_skip(coll, content) == coll.resume /\ file_exists(content)

increment(coll, counter) == [coll EXCEPT !.stats[counter] = @ + 1]

\* what can happen to a request and its save: both work, the request
\* raises, save_json raises before it opens the file or after
AttemptOutcomes(include, fl) ==
    IF include \in fl THEN {"ok", "api_error", "open_error", "dump_error"} ELSE {"ok"}

fetched_SaveErrorUncounted(coll, outcome) ==
    IF outcome = "api_error" THEN increment(coll, "errors")
    ELSE IF outcome = "ok"
    THEN increment(increment(coll, "api_calls"), "files_created")
    ELSE increment(coll, "api_calls")

\* the try block and its except clause: the collector afterwards
fetched(coll, outcome) ==
    IF outcome = "api_error" THEN increment(coll, "errors")
    ELSE IF outcome = "ok"
    THEN increment(increment(coll, "api_calls"), "files_created")
    ELSE increment(increment(coll, "api_calls"), "errors")

\* the file afterwards
saved(content, outcome) ==
    IF outcome = "ok" THEN "new"
    ELSE IF outcome = "dump_error" THEN "partial"
    ELSE content

succeeded_RequestOnly(outcome) == outcome # "api_error"

\* the try block ran to its end
succeeded(outcome) == outcome = "ok"

\* one attempt at path, skipped unless force: the collector, the file, the
\* requests and the success afterwards
Attempt(coll, content, path, force, outcome) ==
    IF ~force /\ should_skip(coll, content)
    THEN [collector |-> increment(coll, "files_skipped"), content |-> content,
          requested |-> <<>>, success |-> TRUE]
    ELSE [collector |-> fetched(coll, outcome), content |-> saved(content, outcome),
          requested |-> <<path>>, success |-> succeeded(outcome)]

\* whether the attempt calls rate_limiter.wait()
Fetches(coll, content, force) == force \/ ~should_skip(coll, content)

\* the rate limiter and the clock after an attempt
AttemptWait(fetches) ==
    IF fetches
    THEN \E returned \in ReturnTimes(limiter, now) :
            /\ limiter' = wait(limiter, now, returned)
            /\ waits' = Append(waits, Waited(limiter, now, returned))
            /\ now' = returned
    ELSE UNCHANGED <<limiter, now, waits>>

\* _collect_fixture is called: the results dictionary is empty
CollectFixture ==
    /\ call.pc = "idle"
    /\ \E fixture_id \in FixturesOf(files) :
            call' = [call EXCEPT !.pc = "collecting", !.fixture_id = fixture_id,
                                 !.number = @ + 1]
    /\ results' = <<>>
    /\ UNCHANGED <<collector, files, requests, attempts, flaky>>
    /\ UNCHANGED <<processingVars, limiterVars, manifestVars>>

\* one pass of the loop over INCLUDES
CollectInclude ==
    /\ call.pc = "collecting"
    /\ Len(results) < Len(INCLUDES)
    /\ LET include_name == INCLUDES[Len(results) + 1]
           output_path == <<call.fixture_id, include_name>>
       IN  /\ \E outcome \in AttemptOutcomes(include_name, flaky) :
                LET a == Attempt(collector, files[output_path].content, output_path,
                                 FALSE, outcome)
                IN  /\ collector' = a.collector
                    /\ files' = [files EXCEPT ![output_path].content = a.content]
                    /\ requests' = requests \o a.requested
                    /\ results' = Append(results, <<include_name, a.success>>)
           /\ AttemptWait(Fetches(collector, files[output_path].content, FALSE))
    /\ attempts' = attempts + 1
    /\ UNCHANGED <<call, flaky, processingVars, manifestVars>>

\* the loop is over: return results
ReturnResults ==
    /\ call.pc = "collecting"
    /\ Len(results) = Len(INCLUDES)
    /\ call' = [call EXCEPT !.pc = "returned"]
    /\ UNCHANGED <<collector, files, requests, results, attempts, flaky>>
    /\ UNCHANGED <<processingVars, limiterVars, manifestVars>>

NextResume == CollectFixture \/ CollectInclude \/ ReturnResults

\* one fixture, every include flaky, no delay between requests; with resume
\* any of the files exist already, without it none or all of them
InitResume ==
    /\ \E resume \in BOOLEAN :
            /\ collector = Collector(resume)
            /\ \E existing \in (IF resume THEN SUBSET ({1} \X IncludeNames)
                                ELSE {{}, {1} \X IncludeNames}) :
                    files = Files({1}, existing)
    /\ flaky = IncludeNames
    /\ requests = <<>>
    /\ results = <<>>
    /\ call = [pc |-> "idle", fixture_id |-> 0, number |-> 0]
    /\ attempts = 0
    /\ limiter = RateLimiter(0)
    /\ now = 0
    /\ waits = <<>>
    /\ NoProcessing /\ NoManifest

SpecResume == InitResume /\ [][NextResume]_vars

\* the call of _collect_fixture has returned
Returned == call.pc = "returned"

\* the path of the include at index i of the fixture of the call
PathOf(i) == <<call.fixture_id, INCLUDES[i]>>

Requested(path) == \E r \in DOMAIN requests : requests[r] = path

\* C21: with resume, every include whose file was there is reported True,
\* is not requested and keeps its file, and the requests made are as many
\* as the includes whose file was not there; without resume nothing is
\* skipped, every include is requested although its file is there
C21_ResumeSkipsExisting ==
    Returned =>
        IF collector.resume
        THEN /\ \A i \in DOMAIN INCLUDES :
                    files[PathOf(i)].before =>
                        /\ results[i] = <<INCLUDES[i], TRUE>>
                        /\ ~Requested(PathOf(i))
                        /\ files[PathOf(i)].content = "old"
             /\ Len(requests) =
                    Cardinality({i \in DOMAIN INCLUDES : ~files[PathOf(i)].before})
        ELSE /\ collector.stats.files_skipped = 0
             /\ \A i \in DOMAIN INCLUDES : Requested(PathOf(i))

\* with resume, a call over a fixture of which ballCoordinates and scores
\* were there has returned, and the request for events had failed
C21_Witness ==
    /\ Returned /\ collector.resume
    /\ {i \in DOMAIN INCLUDES : files[PathOf(i)].before} = {1, 7}
    /\ results[2] = <<"events", FALSE>>
    /\ Len(requests) = 5

\* C22: the returned dictionary has one entry for each of the 7 includes,
\* in their order; an entry is True exactly when the include was skipped or
\* its file was fetched and saved, and every include was attempted, those
\* after a failed one too
C22_OneResultPerInclude ==
    Returned =>
        /\ Len(results) = 7
        /\ attempts = 7
        /\ \A i \in DOMAIN INCLUDES :
                /\ results[i][1] = INCLUDES[i]
                /\ results[i][2] =
                        IF Requested(PathOf(i)) THEN files[PathOf(i)].content = "new"
                        ELSE collector.resume /\ files[PathOf(i)].before

\* the request for the first include failed, the save of the second failed,
\* and the five includes after them were fetched and saved
C22_Witness ==
    /\ Returned
    /\ Requested(PathOf(1)) /\ Requested(PathOf(2))
    /\ results[1][2] = FALSE /\ files[PathOf(1)].content = "absent"
    /\ results[2][2] = FALSE /\ files[PathOf(2)].content = "partial"
    /\ \A i \in 3..7 : results[i][2] /\ files[PathOf(i)].content = "new"


-----------------------------------------------------------------------------
(* Claims about period synchronization of whole periods.                   *)

\* the events of the period of row i, and the range of their minutes
MatchedMinutes(i) ==
    {events[j].minute : j \in PeriodEventsOf(events, coords[i].period_id)}

PeriodMinMinute(i) == SeriesMin(MatchedMinutes(i))

PeriodSpan(i) ==
    LET span == FSub(SeriesMax(MatchedMinutes(i)), PeriodMinMinute(i))
    IN  IF FLe(span, Whole(0)) THEN Whole(DefaultPeriodDuration) ELSE span

\* the rows of the period of row i
PeriodRows(i) == {k \in Rows : coords[k].period_id = coords[i].period_id}

\* C24: under period synchronization every row of a non-null period with a
\* matching event that has a minute, the only row of its period included,
\* has an estimated_minute in [min_minute, min_minute + span]; the row of
\* lowest sequence is at min_minute, the row of highest sequence at
\* min_minute + span, and the estimates do not decrease with the sequence
C24_PeriodSync ==
    (Reconciled /\ strategy = 2) =>
        \A i \in Rows :
            (PeriodMatched(i) /\ NotNa(PeriodMinMinute(i))) =>
                /\ Timed(i)
                /\ RLe(PeriodMinMinute(i), coords[i].estimated_minute)
                /\ RLe(coords[i].estimated_minute, RAdd(PeriodMinMinute(i), PeriodSpan(i)))
                /\ (\A k \in PeriodRows(i) : coords[i].sequence <= coords[k].sequence)
                        => REq(coords[i].estimated_minute, PeriodMinMinute(i))
                /\ (\A k \in PeriodRows(i) : coords[k].sequence <= coords[i].sequence)
                        => REq(coords[i].estimated_minute,
                               RAdd(PeriodMinMinute(i), PeriodSpan(i)))
                /\ \A k \in PeriodRows(i) :
                        coords[i].sequence <= coords[k].sequence
                            => RLe(coords[i].estimated_minute, coords[k].estimated_minute)

-----------------------------------------------------------------------------
(* Frames whose sequence came with the records: parse_coordinates keeps a  *)
(* sequence column of the payload as it is.                                *)

MaxSuppliedSamples == 2
MaxSuppliedEvents == 1

SuppliedSequences == 0..MaxSuppliedSamples

SuppliedFrames ==
    {[i \in DOMAIN c |-> Sample(c[i][1], Whole(0), c[i][2], None)] :
        c \in SeqsOf(SuppliedSequences \X {NaN, Whole(0), Whole(4), Whole(10)},
                     1, MaxSuppliedSamples)}

SuppliedEvents ==
    {[j \in DOMAIN e |-> Event(e[j], None, "A", Pass, "event_type")] :
        e \in SeqsOf({NaN, Whole(0), Whole(1)}, 0, MaxSuppliedEvents)}

InitSupplied ==
    /\ coordsCols = {"minute", "second"}
    /\ coords \in SuppliedFrames
    /\ eventsCols = {"event_type"}
    /\ events \in SuppliedEvents
    /\ tolerance_seconds = DefaultTolerance
    /\ strategy = 0
    /\ pc = "parsed"
    /\ NoCheck /\ NoBatch /\ FilesRead /\ NoCollection

SpecSupplied == InitSupplied /\ [][Next]_vars

\* C25: a linked event is linked to a row within tolerance that no other row
\* is nearer to in time, and among the rows equally near to the one of
\* lowest sequence, whatever sequence values the records carried
C25_ClosestLowestSequence ==
    Linked =>
        \A j \in Evts :
            IsLinked(j) =>
                LET c == events[j].ball[1]
                IN  /\ Qualifies(c, j)
                    /\ \A i \in Rows :
                            Qualifies(i, j) =>
                                /\ RLe(Apart(c, j), Apart(i, j))
                                /\ REq(Apart(c, j), Apart(i, j))
                                        => coords[c].sequence <= coords[i].sequence

-----------------------------------------------------------------------------
(* Typed payloads: parse_events on records of every kind of event type.    *)

MaxTypedEvents == 1

Interception == <<"I","n","t","e","r","c","e","p","t","i","o","n">>
BlockedPass == <<"B","l","o","c","k","e","d"," ","P","a","s","s">>
Substitution == <<"S","u","b","s","t","i","t","u","t","i","o","n">>

\* the keyword lists in the order categorize_event consults them
CategoryKeywords ==
    << <<"defensive_action", DEFENSIVE_ACTIONS>>,
       <<"passing", PASSING_EVENTS>>,
       <<"progressive", PROGRESSIVE_ACTIONS>>,
       <<"set_piece", SET_PIECES>>,
       <<"goal_related", GOAL_RELATED>> >>

Keywords(p) == {CategoryKeywords[p][2][k] : k \in DOMAIN CategoryKeywords[p][2]}

\* every keyword as a whole type, names in mixed case, a name of two
\* categories, names of no category, and a name that is no string
TypeNames ==
    UNION {Keywords(p) : p \in DOMAIN CategoryKeywords}
        \cup {Pass, Foul, Interception, BlockedPass, Substitution, Unknown, NoType}

TypedFiles ==
    {File(TRUE,
          [i \in DOMAIN c |-> RawEvent(TRUE, i, c[i][1], c[i][2], "A")],
          {}) :
        c \in SeqsOf({Null, Num(Whole(0)), Num(Whole(10))}
                        \X ({<<>>} \cup {<<t>> : t \in TypeNames}),
                     0, MaxTypedEvents)}

InitTyped ==
    /\ events_file \in TypedFiles
    /\ coords_file = File(TRUE, <<>>, {})
    /\ coords = <<>>
    /\ coordsCols = {}
    /\ events = <<>>
    /\ eventsCols = {}
    /\ tolerance_seconds = DefaultTolerance
    /\ strategy = 0
    /\ error = None
    /\ pc = "start"
    /\ NoCheck /\ NoBatch /\ NoCollection

SpecTyped == InitTyped /\ [][NextEvents]_vars

\* the type of row j is a string that holds a keyword of list p
Hits(j, p) ==
    /\ events[j].event_type # NoType
    /\ \E kw \in Keywords(p) : Contains(Lower(events[j].event_type), kw)

\* C26: every row has one of the six categories: the one of the first list,
\* in the order defensive_action, passing, progressive, set_piece,
\* goal_related, of which its type holds a keyword, and other when its type
\* holds no keyword or is no string
C26_FixedPriority ==
    EventsParsed =>
        \A j \in DOMAIN events :
            /\ events[j].event_category \in Categories
            /\ \A p \in DOMAIN CategoryKeywords :
                    events[j].event_category = CategoryKeywords[p][1]
                        <=> (Hits(j, p) /\ \A q \in 1..(p - 1) : ~Hits(j, q))
            /\ events[j].event_category = "other"
                    <=> \A p \in DOMAIN CategoryKeywords : ~Hits(j, p)

\* a type that holds both block and pass is a defensive action
C26_Witness ==
    /\ EventsParsed
    /\ \E j \in DOMAIN events :
        /\ Hits(j, 1) /\ Hits(j, 2)
        /\ Contains(Lower(events[j].event_type), <<"b","l","o","c","k">>)
        /\ Contains(Lower(events[j].event_type), <<"p","a","s","s">>)
        /\ events[j].event_category = "defensive_action"

\* C30: a type that is, as a whole, a keyword of one of the five lists is in
\* the category of that list
C30_KeywordOwnCategory ==
    EventsParsed =>
        \A j \in DOMAIN events :
            \A p \in DOMAIN CategoryKeywords :
                events[j].event_type \in Keywords(p)
                    => events[j].event_category = CategoryKeywords[p][1]

-----------------------------------------------------------------------------
(* Claims about the two possession columns together.                       *)

\* C27: after infer_possession every row has a possession_confidence exactly
\* when it has a possession_team, possession events of no known team
\* included, and every possession_team is the team_id of a possession event
C27_ConfidenceIffTeam ==
    pc = "done" =>
        \A i \in Rows :
            /\ coords[i].possession_confidence # None <=> coords[i].possession_team # None
            /\ coords[i].possession_team # None
                    => \E j \in PossessionEvents :
                            events[j].team_id = coords[i].possession_team

-----------------------------------------------------------------------------
(* Collection statistics over several calls of one collector.              *)

MaxCollectorCalls == 2

Bogus == "bogus"

\* include names a caller passes to collect_single_include
SingleNames == {"events", "scores", Bogus}

\* collect_single_include, from call to return
CollectSingleInclude ==
    /\ call.pc = "idle"
    /\ \E fixture_id \in FixturesOf(files), include_name \in SingleNames, force \in BOOLEAN :
        /\ call' = [call EXCEPT !.pc = "single", !.fixture_id = fixture_id,
                                !.number = @ + 1]
        /\ IF include_name \notin IncludeNames
           THEN /\ results' = << <<include_name, FALSE>> >>
                /\ UNCHANGED <<collector, files, requests, attempts, limiterVars>>
           ELSE LET output_path == <<fixture_id, include_name>>
                IN  /\ \E outcome \in AttemptOutcomes(include_name, flaky) :
                            LET a == Attempt(collector, files[output_path].content,
                                             output_path, force, outcome)
                            IN  /\ collector' = a.collector
                                /\ files' = [files EXCEPT ![output_path].content = a.content]
                                /\ requests' = requests \o a.requested
                                /\ results' = << <<include_name, a.success>> >>
                    /\ AttemptWait(Fetches(collector, files[output_path].content, force))
                    /\ attempts' = attempts + 1
    /\ UNCHANGED <<flaky, processingVars, manifestVars>>

\* the caller goes on to its next call
CallAgain ==
    /\ call.pc \in {"returned", "single"}
    /\ call.number < MaxCollectorCalls
    /\ call' = [call EXCEPT !.pc = "idle"]
    /\ UNCHANGED <<collector, files, requests, results, attempts, flaky>>
    /\ UNCHANGED <<processingVars, limiterVars, manifestVars>>

\* reset_stats between two calls; attempts are counted from the reset on
ResetStats ==
    /\ call.pc = "idle"
    /\ attempts > 0
    /\ collector' = [collector EXCEPT !.stats = Collector(collector.resume).stats]
    /\ attempts' = 0
    /\ UNCHANGED <<files, requests, results, call, flaky>>
    /\ UNCHANGED <<processingVars, limiterVars, manifestVars>>

NextStats ==
    \/ CollectFixture \/ CollectInclude \/ ReturnResults
    \/ CollectSingleInclude \/ CallAgain \/ ResetStats

\* one fixture; no file, one file or every file exists; no include or one
\* include is flaky
InitStats ==
    /\ \E resume \in BOOLEAN : collector = Collector(resume)
    /\ \E existing \in {{}, {<<1, "events">>}, {1} \X IncludeNames} :
            files = Files({1}, existing)
    /\ flaky \in {{}, {"scores"}}
    /\ requests = <<>>
    /\ results = <<>>
    /\ call = [pc |-> "idle", fixture_id |-> 0, number |-> 0]
    /\ attempts = 0
    /\ limiter = RateLimiter(0)
    /\ now = 0
    /\ waits = <<>>
    /\ NoProcessing /\ NoManifest

SpecStats == InitStats /\ [][NextStats]_vars

\* the counters add up to the attempts, and the requests that were counted
\* lie between the files created and the files created plus the errors
StatsBalance ==
    LET stats == collector.stats
    IN  /\ stats.files_created + stats.files_skipped + stats.errors = attempts
        /\ stats.files_created <= stats.api_calls
        /\ stats.api_calls <= stats.files_created + stats.errors

\* this step is a call of collect_single_include with a name not in INCLUDES
InvalidCall ==
    /\ call'.pc = "single"
    /\ call'.number = call.number + 1
    /\ results'[1][1] \notin IncludeNames

\* C28: from reset statistics on, after any calls of _collect_fixture and
\* collect_single_include, whatever fails, files_created + files_skipped +
\* errors is the number of (fixture, include) attempts and files_created <=
\* api_calls <= files_created + errors; a call of collect_single_include
\* with a name that is no include changes no counter and requests nothing
C28_Statistics ==
    /\ []StatsBalance
    /\ [][InvalidCall => UNCHANGED <<collector, requests, files, limiterVars>>]_vars

\* a single call with an invalid name has returned after a call of
\* _collect_fixture that skipped a file, created files and failed once after
\* its request had been counted
C28_Witness ==
    /\ call.pc = "single"
    /\ results[1][1] = Bogus
    /\ attempts = 7
    /\ collector.stats.files_skipped = 1
    /\ collector.stats.errors = 1
    /\ collector.stats.api_calls = 6
    /\ collector.stats.files_created = 5

-----------------------------------------------------------------------------
(* CollectionManifest: the fixtures dictionary in insertion order, its     *)
(* keys the decimal texts of the fixture ids.                              *)

DEFAULT_INCLUDES ==
    <<"ballCoordinates", "events", "lineups", "formations", "statistics",
      "participants", "scores">>

\* str(fixture_id) of a non-negative id
RECURSIVE str(_)
str(n) ==
    IF n < 10 THEN <<Digits[n + 1]>>
    ELSE str(n \div 10) \o <<Digits[(n % 10) + 1]>>

\* int(fixture_id_str)
int(s) == DigitsValue(s)

Members(seq) == {seq[i] : i \in DOMAIN seq}

\* list.remove(x): the list without its first x
Remove(seq, x) ==
    LET first == CHOOSE i \in DOMAIN seq : seq[i] = x /\ \A k \in 1..(i - 1) : seq[k] # x
    IN  SubSeq(seq, 1, first - 1) \o SubSeq(seq, first + 1, Len(seq))

\* __init__ and load_manifest when there is no manifest file
CollectionManifest(includes) ==
    LET own == IF includes = <<>> THEN DEFAULT_INCLUDES ELSE includes
    IN  [includes |-> own, priority_order |-> own, fixtures |-> <<>>, file |-> <<>>]

save_manifest(m) == [m EXCEPT !.file = m.fixtures]

\* the position of the fixture of this key, 0 when it is not registered
KeyPosition(m, key) ==
    IF \E k \in DOMAIN m.fixtures : m.fixtures[k].id = key
    THEN CHOOSE k \in DOMAIN m.fixtures : m.fixtures[k].id = key
    ELSE 0

register_fixture(m, fixture_id) ==
    IF KeyPosition(m, str(fixture_id)) # 0 THEN m
    ELSE save_manifest(
            [m EXCEPT !.fixtures =
                Append(@, [id |-> str(fixture_id),
                           status |-> "pending",
                           includes_completed |-> <<>>,
                           includes_remaining |-> m.includes,
                           errors |-> <<>>])])

mark_complete_KeepRemaining(m, fixture_id, include_name) ==
    LET registered == register_fixture(m, fixture_id)
        k == KeyPosition(registered, str(fixture_id))
        fixture == registered.fixtures[k]
        started == IF fixture.status = "pending" THEN "in_progress" ELSE fixture.status
        completed ==
            IF include_name \in Members(fixture.includes_completed)
            THEN fixture.includes_completed
            ELSE Append(fixture.includes_completed, include_name)
        remaining == fixture.includes_remaining
    IN  save_manifest(
            [registered EXCEPT
                !.fixtures[k].status = IF remaining = <<>> THEN "complete" ELSE started,
                !.fixtures[k].includes_completed = completed,
                !.fixtures[k].includes_remaining = remaining])

mark_complete(m, fixture_id, include_name) ==
    LET registered == register_fixture(m, fixture_id)
        k == KeyPosition(registered, str(fixture_id))
        fixture == registered.fixtures[k]
        started == IF fixture.status = "pending" THEN "in_progress" ELSE fixture.status
        completed ==
            IF include_name \in Members(fixture.includes_completed)
            THEN fixture.includes_completed
            ELSE Append(fixture.includes_completed, include_name)
        remaining ==
            IF include_name \in Members(fixture.includes_remaining)
            THEN Remove(fixture.includes_remaining, include_name)
            ELSE fixture.includes_remaining
    IN  save_manifest(
            [registered EXCEPT
                !.fixtures[k].status = IF remaining = <<>> THEN "complete" ELSE started,
                !.fixtures[k].includes_completed = completed,
                !.fixtures[k].includes_remaining = remaining])

mark_error(m, fixture_id, include_name) ==
    LET registered == register_fixture(m, fixture_id)
        k == KeyPosition(registered, str(fixture_id))
    IN  save_manifest(
            [registered EXCEPT
                !.fixtures[k].errors = Append(@, [include |-> include_name])])

\* the pairs of get_pending_work: the outer loop over priority_order, the
\* inner loop over the fixtures
get_pending_work(m) ==
    LET nf == Len(m.fixtures)
        all == [n \in 1..(Len(m.priority_order) * nf) |->
                    <<((n - 1) % nf) + 1, ((n - 1) \div nf) + 1>>]
        IsPending(pair) ==
            m.priority_order[pair[2]] \in Members(m.fixtures[pair[1]].includes_remaining)
        kept == SelectSeq(all, IsPending)
    IN  [n \in DOMAIN kept |->
            <<int(m.fixtures[kept[n][1]].id), m.priority_order[kept[n][2]]>>]

MaxManifestCalls == 3

FixtureIds == {7, 12}

\* include names a caller passes: two tracked ones and one that is not
CalledIncludes == {"ballCoordinates", "events", "unknown"}

Called(op, fixture_id, include_name) ==
    [op |-> op, fixture_id |-> fixture_id, include_name |-> include_name]

RegisterFixture ==
    /\ Len(manifest_calls) < MaxManifestCalls
    /\ \E fixture_id \in FixtureIds :
        /\ manifest' = register_fixture(manifest, fixture_id)
        /\ manifest_calls' = Append(manifest_calls, Called("register_fixture", fixture_id, None))
    /\ UNCHANGED <<processingVars, limiterVars, collectorVars>>

MarkComplete ==
    /\ Len(manifest_calls) < MaxManifestCalls
    /\ \E fixture_id \in FixtureIds, include_name \in CalledIncludes :
        /\ manifest' = mark_complete(manifest, fixture_id, include_name)
        /\ manifest_calls' =
                Append(manifest_calls, Called("mark_complete", fixture_id, include_name))
    /\ UNCHANGED <<processingVars, limiterVars, collectorVars>>

MarkError ==
    /\ Len(manifest_calls) < MaxManifestCalls
    /\ \E fixture_id \in FixtureIds, include_name \in CalledIncludes :
        /\ manifest' = mark_error(manifest, fixture_id, include_name)
        /\ manifest_calls' =
                Append(manifest_calls, Called("mark_error", fixture_id, include_name))
    /\ UNCHANGED <<processingVars, limiterVars, collectorVars>>

NextManifest == RegisterFixture \/ MarkComplete \/ MarkError

\* a new manifest with the default includes or with a list of its own
InitManifest ==
    /\ \E includes \in {<<>>, <<"events", "ballCoordinates">>} :
            manifest = CollectionManifest(includes)
    /\ manifest_calls = <<>>
    /\ NoProcessing /\ NoLimiter /\ NoCollector

SpecManifest == InitManifest /\ [][NextManifest]_vars

Statuses == <<"pending", "in_progress", "complete">>

Rank(status) == CHOOSE r \in DOMAIN Statuses : Statuses[r] = status

\* the pairs of every fixture and every include it still has to collect
Remaining ==
    UNION {{<<int(manifest.fixtures[k].id), include>> :
                include \in Members(manifest.fixtures[k].includes_remaining)} :
            k \in DOMAIN manifest.fixtures}

PriorityOf(include) ==
    CHOOSE p \in DOMAIN manifest.priority_order : manifest.priority_order[p] = include

\* lists and status of every registered fixture agree, and get_pending_work
\* returns the remaining pairs, each once, in the order of include priority
ManifestConsistent ==
    /\ \A k \in DOMAIN manifest.fixtures :
        LET fixture == manifest.fixtures[k]
        IN  /\ Members(fixture.includes_completed) \cap Members(fixture.includes_remaining) = {}
            /\ fixture.status = "pending" <=> fixture.includes_completed = <<>>
            /\ fixture.status = "complete" <=> fixture.includes_remaining = <<>>
            /\ fixture.status = "in_progress"
                    <=> (fixture.includes_completed # <<>> /\ fixture.includes_remaining # <<>>)
    /\ LET pending == get_pending_work(manifest)
       IN  /\ Members(pending) = Remaining
           /\ Len(pending) = Cardinality(Remaining)
           /\ \A a, b \in DOMAIN pending :
                    a < b => PriorityOf(pending[a][2]) <= PriorityOf(pending[b][2])

\* the call of this step
ThisCall == manifest_calls'[Len(manifest_calls')]

\* in this step no status moves backwards, and a call of mark_error or of
\* register_fixture for a registered fixture keeps status and lists
ManifestStep ==
    /\ \A k \in DOMAIN manifest.fixtures :
            /\ manifest'.fixtures[k].id = manifest.fixtures[k].id
            /\ Rank(manifest'.fixtures[k].status) >= Rank(manifest.fixtures[k].status)
    /\ ThisCall.op \in {"mark_error", "register_fixture"} =>
            \A k \in DOMAIN manifest.fixtures :
                /\ manifest'.fixtures[k].status = manifest.fixtures[k].status
                /\ manifest'.fixtures[k].includes_completed
                        = manifest.fixtures[k].includes_completed
                /\ manifest'.fixtures[k].includes_remaining
                        = manifest.fixtures[k].includes_remaining

=============================================================================
